---- MODULE Spec2Model ----
(***************************************************************************)
(* Toxic Comment Classification API (src/app.py): the classifier adapter   *)
(* classify_comment and the feedback store (init_db, submit_feedback,      *)
(* get_feedback_stats, view_feedback) over the SQLite table `feedback`.    *)
(*                                                                         *)
(* Probabilities are held in thousandths (500 is 0.5).  Each worker that   *)
(* serves submit_feedback is a process whose steps are the statements of   *)
(* the handler that touch the database: a worker's INSERT opens a          *)
(* transaction under SQLite's single write lock and its row reaches the    *)
(* table only at COMMIT.  The initial state is the module being loaded,    *)
(* before its call of init_db() (line 76); the handlers serve only after.  *)
(***************************************************************************)
EXTENDS Integers, Sequences, FiniteSets, TLC

\* ------------------------------------------------------------------ bounds
MaxLabels == 2      \* longest expected_labels list a request carries
MaxRows == 2        \* rows submit_feedback may add in one behaviour
MaxLimit == 3       \* largest limit / offset passed to view_feedback
MaxLogit == 1       \* the model's logits range over -MaxLogit..MaxLogit

\* ------------------------------------------------------------- input sets
Procs == {"w1", "w2"}
Comments == {"you rock", "I will kill you"}
Noon == "2024-01-01 12:00:00"
Timestamps == {Noon, "2024-01-01 12:00:01"}
ExpectedLabelPool == {"toxic", "identity_hate", "none", "bogus"}
ConcurrentLists == {<<"toxic">>, <<"none", "threat">>, <<"spam">>}
PagingLists == {<<>>, <<"insult">>}
StorageCauses == {"database is locked"}
Thresholds == {269, 500, 900}

\* --------------------------------------------------------------- constants
LABELS == <<"toxic", "severe_toxic", "obscene", "threat", "insult", "identity_hate">>

DefaultThreshold == 500

DefaultLimit == 100

DefaultOffset == 0

LabelIndex == 1..Len(LABELS)

LabelSet == {LABELS[i] : i \in LabelIndex}

SeqsUpTo(S, n) == UNION {[1..k -> S] : k \in 0..n}

Contains(s, x) == \E i \in 1..Len(s) : s[i] = x

Min(a, b) == IF a <= b THEN a ELSE b

Max(a, b) == IF a >= b THEN a ELSE b

\* ------------------------------------------------------------------- state
VARIABLES
    started,          \* the module is loaded: init_db() has run, the handlers serve
    tableExists,      \* the feedback table is in the database file
    table,            \* its committed rows (a relation keyed by id)
    sqlite_sequence,  \* AUTOINCREMENT's record of the largest rowid ever used
    pc,               \* each worker's position in submit_feedback
    feedback,         \* each worker's FeedbackRequest
    label_values,     \* each worker's label_values list
    txn,              \* the row in each worker's open transaction
    response,         \* each worker's HTTP response
    nSuccess,         \* submit_feedback calls that answered 200
    initialCount,     \* rows in the table when the service started
    readResp,         \* last response of get_feedback_stats / view_feedback
    pager,            \* a client reading view_feedback page by page
    clsResp           \* last response of classify_comment

storeVars == <<tableExists, table, sqlite_sequence>>
workerVars == <<pc, feedback, label_values, txn, response, nSuccess>>
vars == <<started, tableExists, table, sqlite_sequence, pc, feedback, label_values, txn,
          response, nSuccess, initialCount, readResp, pager, clsResp>>

NoRequest == [comment |-> "", expected_labels |-> <<>>, present |-> FALSE]
NoRow == [id |-> 0]
NoResponse == [status |-> 0, detail |-> ""]
NoRead == [op |-> "none", status |-> 0]
NoPager == [state |-> "idle", limit |-> 0, offset |-> 0, snapshot |-> {}, got |-> <<>>]
NoClassification == [status |-> 0]

\* ------------------------------------------------------------ submit logic
RECURSIVE join(_, _)
join(sep, s) ==
    IF s = <<>> THEN ""
    ELSE IF Len(s) = 1 THEN s[1]
    ELSE s[1] \o sep \o join(sep, Tail(s))

IsInvalidLabel(label) == label \notin LabelSet /\ label # "none"

InvalidLabelsFirstOnly(expected_labels) ==
    IF expected_labels # <<>> /\ IsInvalidLabel(expected_labels[1])
    THEN <<expected_labels[1]>> ELSE <<>>

InvalidLabels(expected_labels) == SelectSeq(expected_labels, IsInvalidLabel)

InvalidDetail(invalid_labels) == "Invalid labels: " \o join(", ", invalid_labels)

LabelValuesFirstOnly(expected_labels) ==
    [i \in LabelIndex |->
        IF expected_labels # <<>> /\ expected_labels[1] = LABELS[i] THEN 1 ELSE 0]

LabelValues(expected_labels) ==
    [i \in LabelIndex |-> IF Contains(expected_labels, LABELS[i]) THEN 1 ELSE 0]

MaxRowid(rows) ==
    IF rows = {} THEN 0
    ELSE CHOOSE m \in {r.id : r \in rows} : \A r \in rows : r.id <= m

NextRowid(rows, seq) == Max(MaxRowid(rows), seq) + 1

InsertRow(rowid, comment, values, now) ==
    [id |-> rowid, comment |-> comment,
     toxic |-> values[1], severe_toxic |-> values[2], obscene |-> values[3],
     threat |-> values[4], insult |-> values[5], identity_hate |-> values[6],
     timestamp |-> now]

CommitRows(rows, row) == rows \cup {row}

DatabaseErrorDetail(cause) == "Database error: " \o cause

NoWriteLock == TRUE

WriteLockFree == \A q \in Procs : txn[q] = NoRow

InFlight == {q \in Procs : pc[q] \in {"insert", "commit"}}

\* -------------------------------------------------------------------- init
\* The database file when the module is loaded: a new file without the
\* table, or the file of an earlier run with its rows.
InitialDatabases ==
    {[exists |-> FALSE, rows |-> {}],
     [exists |-> TRUE,
      rows |-> {InsertRow(1, "earlier comment", LabelValues(<<"insult">>),
                          "2023-12-31 09:00:00")}]}

Init ==
    /\ started = FALSE
    /\ \E db \in InitialDatabases : tableExists = db.exists /\ table = db.rows
    /\ sqlite_sequence = Cardinality(table)
    /\ pc = [p \in Procs |-> "idle"]
    /\ feedback = [p \in Procs |-> NoRequest]
    /\ label_values = [p \in Procs |-> <<>>]
    /\ txn = [p \in Procs |-> NoRow]
    /\ response = [p \in Procs |-> NoResponse]
    /\ nSuccess = 0
    /\ initialCount = Cardinality(table)
    /\ readResp = NoRead
    /\ pager = NoPager
    /\ clsResp = NoClassification

\* ----------------------------------------------------------------- init_db
init_db_rows_recreate(exists, rows) == {}

init_db_rows(exists, rows) == IF exists THEN rows ELSE {}

init_db ==
    /\ started' = TRUE
    /\ tableExists' = TRUE
    /\ table' = init_db_rows(tableExists, table)
    /\ sqlite_sequence' = IF tableExists THEN sqlite_sequence ELSE 0
    /\ UNCHANGED <<workerVars, initialCount, readResp, pager, clsResp>>

\* --------------------------------------------------------- submit_feedback
submit_feedback(p, comment, expected_labels) ==
    /\ started
    /\ pc[p] = "idle"
    /\ Cardinality(table) + Cardinality(InFlight) < initialCount + MaxRows
    /\ feedback' = [feedback EXCEPT ![p] =
          [comment |-> comment, expected_labels |-> expected_labels, present |-> TRUE]]
    /\ LET invalid_labels == InvalidLabels(expected_labels) IN
         IF invalid_labels # <<>>
         THEN /\ response' = [response EXCEPT ![p] =
                    [status |-> 400, detail |-> InvalidDetail(invalid_labels)]]
              /\ pc' = [pc EXCEPT ![p] = "done"]
              /\ UNCHANGED label_values
         ELSE /\ label_values' = [label_values EXCEPT ![p] = LabelValues(expected_labels)]
              /\ pc' = [pc EXCEPT ![p] = "insert"]
              /\ UNCHANGED response
    /\ UNCHANGED <<started, storeVars, txn, nSuccess, initialCount, readResp, pager, clsResp>>

submit_feedback_insert_autocommit(p, now) ==
    /\ started
    /\ pc[p] = "insert"
    /\ tableExists
    /\ WriteLockFree
    /\ LET row == InsertRow(NextRowid(table, sqlite_sequence), feedback[p].comment,
                            label_values[p], now) IN
         /\ txn' = [txn EXCEPT ![p] = row]
         /\ table' = CommitRows(table, row)
         /\ sqlite_sequence' = row.id
    /\ pc' = [pc EXCEPT ![p] = "commit"]
    /\ UNCHANGED <<started, tableExists, feedback, label_values, response, nSuccess,
                   initialCount, readResp, pager, clsResp>>

submit_feedback_insert(p, now) ==
    /\ started
    /\ pc[p] = "insert"
    /\ tableExists
    /\ WriteLockFree
    /\ txn' = [txn EXCEPT ![p] =
          InsertRow(NextRowid(table, sqlite_sequence), feedback[p].comment,
                    label_values[p], now)]
    /\ pc' = [pc EXCEPT ![p] = "commit"]
    /\ UNCHANGED <<started, storeVars, feedback, label_values, response, nSuccess,
                   initialCount, readResp, pager, clsResp>>

submit_feedback_insert_fails(p, cause) ==
    /\ started
    /\ pc[p] = "insert"
    /\ response' = [response EXCEPT ![p] =
          [status |-> 500, detail |-> DatabaseErrorDetail(cause)]]
    /\ pc' = [pc EXCEPT ![p] = "done"]
    /\ UNCHANGED <<started, storeVars, feedback, label_values, txn, nSuccess,
                   initialCount, readResp, pager, clsResp>>

submit_feedback_commit(p) ==
    /\ started
    /\ pc[p] = "commit"
    /\ table' = CommitRows(table, txn[p])
    /\ sqlite_sequence' = Max(sqlite_sequence, txn[p].id)
    /\ txn' = [txn EXCEPT ![p] = NoRow]
    /\ response' = [response EXCEPT ![p] =
          [status |-> 200, detail |-> "Feedback stored successfully"]]
    /\ nSuccess' = nSuccess + 1
    /\ pc' = [pc EXCEPT ![p] = "done"]
    /\ UNCHANGED <<started, tableExists, feedback, label_values, initialCount, readResp,
                   pager, clsResp>>

submit_feedback_commit_fails(p, cause) ==
    /\ started
    /\ pc[p] = "commit"
    /\ txn' = [txn EXCEPT ![p] = NoRow]
    /\ response' = [response EXCEPT ![p] =
          [status |-> 500, detail |-> DatabaseErrorDetail(cause)]]
    /\ pc' = [pc EXCEPT ![p] = "done"]
    /\ UNCHANGED <<started, storeVars, feedback, label_values, nSuccess, initialCount,
                   readResp, pager, clsResp>>

submit_feedback_return(p) ==
    /\ started
    /\ pc[p] = "done"
    /\ pc' = [pc EXCEPT ![p] = "idle"]
    /\ feedback' = [feedback EXCEPT ![p] = NoRequest]
    /\ label_values' = [label_values EXCEPT ![p] = <<>>]
    /\ response' = [response EXCEPT ![p] = NoResponse]
    /\ UNCHANGED <<started, storeVars, txn, nSuccess, initialCount, readResp, pager, clsResp>>

\* ------------------------------------------------------ get_feedback_stats
CountDistinctComments(rows) == Cardinality({r.comment : r \in rows})

CountRows(rows) == Cardinality(rows)

get_feedback_stats ==
    /\ started
    /\ tableExists
    /\ readResp' = [op |-> "count", status |-> 200,
                    total_feedback_entries |-> CountRows(table)]
    /\ UNCHANGED <<started, storeVars, workerVars, initialCount, pager, clsResp>>

get_feedback_stats_fails(cause) ==
    /\ started
    /\ readResp' = [op |-> "count", status |-> 500,
                    detail |-> DatabaseErrorDetail(cause)]
    /\ UNCHANGED <<started, storeVars, workerVars, initialCount, pager, clsResp>>

\* ----------------------------------------------------------- view_feedback
RECURSIVE ScanNewestFirst(_)
ScanNewestFirst(rows) ==
    IF rows = {} THEN <<>>
    ELSE LET first == CHOOSE r \in rows : \A q \in rows : r.id >= q.id
         IN <<first>> \o ScanNewestFirst(rows \ {first})

RECURSIVE ScanByRowid(_)
ScanByRowid(rows) ==
    IF rows = {} THEN <<>>
    ELSE LET first == CHOOSE r \in rows : \A q \in rows : r.id <= q.id
         IN <<first>> \o ScanByRowid(rows \ {first})

LimitOffsetSwapped(scan, limit, offset) ==
    LET skip == IF limit < 0 THEN 0 ELSE limit
        stop == IF offset < 0 THEN Len(scan) ELSE Min(Len(scan), skip + offset)
    IN  SubSeq(scan, skip + 1, stop)

LimitOffset(scan, limit, offset) ==
    LET skip == IF offset < 0 THEN 0 ELSE offset
        stop == IF limit < 0 THEN Len(scan) ELSE Min(Len(scan), skip + limit)
    IN  SubSeq(scan, skip + 1, stop)

ToBool(v) == v = 1

FeedbackResponse(row) ==
    [id |-> row.id, comment |-> row.comment,
     toxic |-> ToBool(row.toxic), severe_toxic |-> ToBool(row.severe_toxic),
     obscene |-> ToBool(row.obscene), threat |-> ToBool(row.threat),
     insult |-> ToBool(row.insult), identity_hate |-> ToBool(row.identity_hate),
     timestamp |-> row.timestamp]

SelectFeedback(rows, limit, offset) ==
    LET results == LimitOffset(ScanByRowid(rows), limit, offset)
    IN  [i \in 1..Len(results) |-> FeedbackResponse(results[i])]

view_feedback(limit, offset) ==
    /\ started
    /\ tableExists
    /\ readResp' = [op |-> "list", status |-> 200, limit |-> limit, offset |-> offset,
                    body |-> SelectFeedback(table, limit, offset)]
    /\ UNCHANGED <<started, storeVars, workerVars, initialCount, pager, clsResp>>

view_feedback_fails(cause) ==
    /\ started
    /\ readResp' = [op |-> "list", status |-> 500,
                    detail |-> "Failed to retrieve feedback: " \o cause]
    /\ UNCHANGED <<started, storeVars, workerVars, initialCount, pager, clsResp>>

\* A client that reads the table page by page: view_feedback(limit, 0),
\* view_feedback(limit, limit), ... until a page is shorter than limit.
PagerStart(limit) ==
    /\ started
    /\ pager.state = "idle"
    /\ tableExists
    /\ LET page == SelectFeedback(table, limit, 0) IN
         pager' = [state |-> IF Len(page) < limit THEN "done" ELSE "reading",
                   limit |-> limit, offset |-> limit,
                   snapshot |-> table, got |-> page]
    /\ UNCHANGED <<started, storeVars, workerVars, initialCount, readResp, clsResp>>

PagerNext ==
    /\ started
    /\ pager.state = "reading"
    /\ tableExists
    /\ LET page == SelectFeedback(table, pager.limit, pager.offset) IN
         pager' = [pager EXCEPT
                     !.state = IF Len(page) < pager.limit THEN "done" ELSE "reading",
                     !.offset = pager.offset + pager.limit,
                     !.got = pager.got \o page]
    /\ UNCHANGED <<started, storeVars, workerVars, initialCount, readResp, clsResp>>

PagerReset ==
    /\ started
    /\ pager.state = "done"
    /\ pager' = NoPager
    /\ UNCHANGED <<started, storeVars, workerVars, initialCount, readResp, clsResp>>

\* -------------------------------------------------------- classify_comment
\* torch.sigmoid on the logits, in thousandths.
sigmoid(x) ==
    CASE x = 0 -> 500
      [] x = 1 -> 731
      [] x = -1 -> 269
      [] x = 2 -> 881
      [] x = -2 -> 119
      [] x = 3 -> 953
      [] x = -3 -> 47
      [] OTHER -> IF x > 0 THEN 1000 ELSE 0

Logits == [LabelIndex -> -MaxLogit..MaxLogit]

\* predictions, as the dict's items in insertion order
Predictions(logits) == [i \in LabelIndex |-> <<LABELS[i], sigmoid(logits[i])>>]

IsPredictedStrict(prob, threshold) == prob > threshold

IsPredicted(prob, threshold) == prob >= threshold

PredictedLabels(predictions, threshold) ==
    LET picked == SelectSeq(predictions, LAMBDA item : IsPredicted(item[2], threshold))
    IN  [i \in 1..Len(picked) |-> picked[i][1]]

OrNone(predicted_labels) ==
    IF predicted_labels = <<>> THEN <<"none">> ELSE predicted_labels

ProbabilitiesOfPredicted(predictions) ==
    [label \in {predictions[i][1] : i \in {j \in 1..Len(predictions) :
                                              predictions[j][2] >= DefaultThreshold}} |->
        LET i == CHOOSE j \in 1..Len(predictions) : predictions[j][1] = label
        IN  predictions[i][2]]

ProbabilitiesDict(predictions) ==
    [label \in {predictions[i][1] : i \in 1..Len(predictions)} |->
        LET i == CHOOSE j \in 1..Len(predictions) : predictions[j][1] = label
        IN  predictions[i][2]]

classify_comment(logits, threshold) ==
    /\ started
    /\ clsResp = NoClassification
    /\ LET predictions == Predictions(logits) IN
         clsResp' = [status |-> 200, logits |-> logits, threshold |-> threshold,
                     labels |-> OrNone(PredictedLabels(predictions, threshold)),
                     probabilities |-> ProbabilitiesDict(predictions)]
    /\ UNCHANGED <<started, storeVars, workerVars, initialCount, readResp, pager>>

classify_comment_fails(cause) ==
    /\ started
    /\ clsResp = NoClassification
    /\ clsResp' = [status |-> 500, detail |-> "Classification error: " \o cause]
    /\ UNCHANGED <<started, storeVars, workerVars, initialCount, readResp, pager>>

classify_text_return ==
    /\ started
    /\ clsResp # NoClassification
    /\ clsResp' = NoClassification
    /\ UNCHANGED <<started, storeVars, workerVars, initialCount, readResp, pager>>

\* ---------------------------------------------------------- specifications
\* Concurrent workers serving submit_feedback, with the read endpoints.
Next ==
    \/ init_db
    \/ \E p \in Procs, c \in Comments, e \in ConcurrentLists : submit_feedback(p, c, e)
    \/ \E p \in Procs : submit_feedback_insert(p, Noon)
    \/ \E p \in Procs, cause \in StorageCauses : submit_feedback_insert_fails(p, cause)
    \/ \E p \in Procs : submit_feedback_commit(p)
    \/ \E p \in Procs, cause \in StorageCauses : submit_feedback_commit_fails(p, cause)
    \/ \E p \in Procs : submit_feedback_return(p)
    \/ get_feedback_stats
    \/ \E cause \in StorageCauses : get_feedback_stats_fails(cause)
    \/ view_feedback(DefaultLimit, DefaultOffset)
    \/ \E cause \in StorageCauses : view_feedback_fails(cause)
    \/ classify_comment([i \in LabelIndex |-> 0], DefaultThreshold)
    \/ classify_text_return

Spec == Init /\ [][Next]_vars

\* One worker, every expected_labels list up to MaxLabels.
NextSubmit ==
    \/ init_db
    \/ \E c \in Comments, e \in SeqsUpTo(ExpectedLabelPool, MaxLabels) :
          submit_feedback("w1", c, e)
    \/ submit_feedback_insert("w1", Noon)
    \/ \E cause \in StorageCauses : submit_feedback_insert_fails("w1", cause)
    \/ submit_feedback_commit("w1")
    \/ \E cause \in StorageCauses : submit_feedback_commit_fails("w1", cause)
    \/ submit_feedback_return("w1")
    \/ get_feedback_stats
    \/ view_feedback(DefaultLimit, DefaultOffset)

SpecSubmit == Init /\ [][NextSubmit]_vars

\* One worker filling the table, view_feedback with every limit and offset.
NextList ==
    \/ init_db
    \/ \E e \in PagingLists : submit_feedback("w1", "you rock", e)
    \/ \E now \in Timestamps : submit_feedback_insert("w1", now)
    \/ submit_feedback_commit("w1")
    \/ submit_feedback_return("w1")
    \/ \E limit \in 0..MaxLimit, offset \in 0..MaxLimit : view_feedback(limit, offset)

SpecList == Init /\ [][NextList]_vars

\* One worker filling the table while a client pages through it.
NextPaging ==
    \/ init_db
    \/ \E e \in PagingLists : submit_feedback("w1", "you rock", e)
    \/ \E now \in Timestamps : submit_feedback_insert("w1", now)
    \/ submit_feedback_commit("w1")
    \/ submit_feedback_return("w1")
    \/ \E limit \in 1..MaxLimit : PagerStart(limit)
    \/ PagerNext
    \/ PagerReset

SpecPaging == Init /\ [][NextPaging]_vars

\* classify_comment over every logit vector and threshold.
NextClassify ==
    \/ init_db
    \/ /\ started /\ clsResp = NoClassification
       /\ \E logits \in Logits, threshold \in Thresholds : classify_comment(logits, threshold)
    \/ classify_comment_fails("model failure")
    \/ classify_text_return

SpecClassify == Init /\ [][NextClassify]_vars

\* ------------------------------------------------------------------ claims
SixNames == {"toxic", "severe_toxic", "obscene", "threat", "insult", "identity_hate"}

PositionOf(name) ==
    CASE name = "toxic" -> 1
      [] name = "severe_toxic" -> 2
      [] name = "obscene" -> 3
      [] name = "threat" -> 4
      [] name = "insult" -> 5
      [] name = "identity_hate" -> 6
      [] OTHER -> 0

FlagOf(row, name) ==
    CASE name = "toxic" -> row.toxic
      [] name = "severe_toxic" -> row.severe_toxic
      [] name = "obscene" -> row.obscene
      [] name = "threat" -> row.threat
      [] name = "insult" -> row.insult
      [] name = "identity_hate" -> row.identity_hate

Columns ==
    {"id", "comment", "toxic", "severe_toxic", "obscene", "threat", "insult",
     "identity_hate", "timestamp"}

Ids(rows) == {r.id : r \in rows}

Members(s) == {s[i] : i \in 1..Len(s)}

\* C1: classify_comment returns exactly the fixed names whose probability is
\* >= threshold, in fixed-label order (equality selects), and returns ["none"]
\* exactly when all six probabilities are strictly below the threshold; "none"
\* never stands beside a real label.
C1_LabelsAreThresholded ==
    clsResp.status = 200 =>
        LET prob(name) == sigmoid(clsResp.logits[PositionOf(name)])
            selected == {name \in SixNames : prob(name) >= clsResp.threshold}
            labels == clsResp.labels
        IN  /\ (labels = <<"none">>) <=> (\A name \in SixNames : prob(name) < clsResp.threshold)
            /\ selected # {} =>
                  /\ Members(labels) = selected
                  /\ Len(labels) = Cardinality(selected)
                  /\ \A i, j \in 1..Len(labels) :
                        i < j => PositionOf(labels[i]) < PositionOf(labels[j])
            /\ "none" \in Members(labels) => labels = <<"none">>

\* C1 witness: a probability equal to the threshold is selected while a lower
\* one is not.
C1_Witness ==
    /\ clsResp.status = 200
    /\ clsResp.threshold = 500
    /\ clsResp.logits = <<0, -1, -1, 1, -1, -1>>
    /\ clsResp.labels = <<"toxic", "threat">>

\* C2: every successful classify result has a probabilities mapping whose key
\* set is exactly the six fixed names, each value in [0, 1], whichever labels
\* were selected; "none" is never a key.
C2_ProbabilitiesHaveSixKeys ==
    clsResp.status = 200 =>
        /\ DOMAIN clsResp.probabilities = SixNames
        /\ "none" \notin DOMAIN clsResp.probabilities
        /\ \A name \in DOMAIN clsResp.probabilities :
              /\ clsResp.probabilities[name] \in 0..1000
              /\ clsResp.probabilities[name] = sigmoid(clsResp.logits[PositionOf(name)])

\* C2 witness: a result whose labels are ["none"] still carries six probabilities.
C2_Witness ==
    /\ clsResp.status = 200
    /\ clsResp.labels = <<"none">>
    /\ clsResp.threshold = 500
    /\ Cardinality(DOMAIN clsResp.probabilities) = 6

IsCommitStep(p) == pc[p] = "commit" /\ pc'[p] = "done" /\ response'[p].status = 200

IsFailedStep(p) == pc[p] # "done" /\ pc'[p] = "done" /\ response'[p].status # 200

IsCountStep == readResp' # readResp /\ readResp'.op = "count" /\ readResp'.status = 200

IsListStep == readResp' # readResp /\ readResp'.op = "list" /\ readResp'.status = 200

\* C3: a successful submit raises the count by exactly 1, and every other
\* step (failed submits included) leaves it alone, so get_feedback_stats
\* returns the initial row count plus the number of successful submits.
C3_CountTracksSuccessfulSubmits ==
    /\ [](Cardinality(table) = initialCount + nSuccess)
    /\ [][/\ \A p \in Procs : IsCommitStep(p) => Cardinality(table') = Cardinality(table) + 1
          /\ (\A p \in Procs : ~IsCommitStep(p)) => Cardinality(table') = Cardinality(table)
          /\ IsCountStep => readResp'.total_feedback_entries = initialCount + nSuccess]_vars

\* C3 witness: the count was read after two successful submits and a failed one.
C3_Witness ==
    /\ initialCount = 1
    /\ nSuccess = 2
    /\ readResp.op = "count"
    /\ readResp.status = 200
    /\ readResp.total_feedback_entries = 3
    /\ \E p \in Procs : response[p].status = 500

ListIsCurrent ==
    /\ readResp.op = "list"
    /\ readResp.status = 200
    /\ Len(readResp.body) = Cardinality(table)

\* C4: the row a submit created, as view_feedback returns it, carries the
\* comment verbatim and, for each of the six names, a flag that is true
\* exactly when the name is in expected_labels; "none" sets no flag.
C4_StoredFlagsMatchMembership ==
    (/\ pc["w1"] = "done"
     /\ response["w1"].status = 200
     /\ ListIsCurrent) =>
        LET row == readResp.body[Len(readResp.body)]
            expected == feedback["w1"].expected_labels
        IN  /\ row.comment = feedback["w1"].comment
            /\ \A name \in SixNames : FlagOf(row, name) = (name \in Members(expected))
            /\ Members(expected) \subseteq {"none"} =>
                  \A name \in SixNames : FlagOf(row, name) = FALSE

\* C4 witness: a submit with the sentinel beside a real label was stored and listed.
C4_Witness ==
    /\ pc["w1"] = "done"
    /\ response["w1"].status = 200
    /\ ListIsCurrent
    /\ feedback["w1"].expected_labels = <<"none", "identity_hate">>
    /\ feedback["w1"].comment = "I will kill you"
    /\ readResp.body[Len(readResp.body)].identity_hate = TRUE
    /\ readResp.body[Len(readResp.body)].toxic = FALSE

Offending(expected) == SelectSeq(expected, LAMBDA l : l \notin SixNames \cup {"none"})

HasOffending(p) == feedback[p].present /\ Offending(feedback[p].expected_labels) # <<>>

\* C5: a submit whose expected_labels holds a value that is neither one of
\* the six names nor "none" answers 400 with a message naming exactly the
\* offending values, and writes nothing: no transaction is opened and the
\* table and the row count are unchanged by every step of that call.
C5_InvalidLabelsRejected ==
    /\ [](\A p \in Procs : HasOffending(p) =>
            /\ pc[p] = "done"
            /\ response[p].status = 400
            /\ response[p].detail =
                  "Invalid labels: " \o join(", ", Offending(feedback[p].expected_labels))
            /\ txn[p] = NoRow)
    /\ [][\A p \in Procs : (HasOffending(p) \/ HasOffending(p)') =>
            /\ table' = table
            /\ sqlite_sequence' = sqlite_sequence
            /\ Cardinality(table') = Cardinality(table)]_vars

\* C5 witness: a list with a valid and an invalid element was rejected.
C5_Witness ==
    /\ pc["w1"] = "done"
    /\ feedback["w1"].expected_labels = <<"toxic", "bogus">>
    /\ response["w1"].status = 400
    /\ response["w1"].detail = "Invalid labels: bogus"
    /\ table # {}

\* C6: on a table of n rows view_feedback(limit, offset) returns exactly
\* min(limit, max(0, n - offset)) rows, the rows at positions offset+1 ..
\* offset+limit of the table in ascending id order.
C6_ListReturnsWindowInIdOrder ==
    [][IsListStep =>
        LET n == Cardinality(table)
            limit == readResp'.limit
            offset == readResp'.offset
            body == readResp'.body
        IN  /\ Len(body) = Min(limit, Max(0, n - offset))
            /\ \A k \in 1..Len(body) :
                  /\ \E r \in table : body[k] = FeedbackResponse(r)
                  /\ Cardinality({r \in table : r.id < body[k].id}) = offset + k - 1]_vars

\* C6 witness: with three rows, limit 2 and offset 2 return the one row with
\* the largest id.
C6_Witness ==
    /\ readResp.op = "list"
    /\ readResp.status = 200
    /\ readResp.limit = 2
    /\ readResp.offset = 2
    /\ Cardinality(table) = 3
    /\ Len(readResp.body) = 1
    /\ readResp.body[1].id = 3

\* C7: under any interleaving of concurrent submits every committed row has
\* an id of its own, each new id is greater than every id already in the
\* table, each row carries the comment and flags of the one call that
\* created it, and no successful submit's row is lost.
C7_ConcurrentSubmitsKeepRowsApart ==
    /\ [](\A r, q \in table : r.id = q.id => r = q)
    /\ [][\A p \in Procs : IsCommitStep(p) =>
            \E row \in table' \ table :
                /\ table' = table \cup {row}
                /\ \A r \in table : r.id < row.id
                /\ row.comment = feedback[p].comment
                /\ \A name \in SixNames :
                      (FlagOf(row, name) = 1) = (name \in Members(feedback[p].expected_labels))
                /\ \A name \in SixNames : FlagOf(row, name) \in {0, 1}]_vars

\* C7 witness: both workers' submits succeeded, with different comments and flags.
C7_Witness ==
    /\ \A p \in Procs : pc[p] = "done" /\ response[p].status = 200
    /\ feedback["w1"].comment # feedback["w2"].comment
    /\ feedback["w1"].expected_labels # feedback["w2"].expected_labels
    /\ Cardinality(table) = initialCount + 2

CompleteRow(r) ==
    /\ DOMAIN r = Columns
    /\ r.id >= 1
    /\ r.timestamp # ""
    /\ \A name \in SixNames : FlagOf(r, name) \in {0, 1}

\* C8: a submit is all-or-nothing: every row a reader can see is a complete
\* row of nine columns, the row of an open transaction is in no read; a
\* storage failure answers 500 and leaves the table as it was, and a
\* successful submit's row is in the table from its commit on.
C8_SubmitIsAllOrNothing ==
    /\ [](/\ \A r \in table : CompleteRow(r)
          /\ \A p \in Procs : txn[p] # NoRow =>
                /\ txn[p].id \notin Ids(table)
                /\ (readResp.op = "list" /\ readResp.status = 200) =>
                      \A k \in 1..Len(readResp.body) : readResp.body[k].id # txn[p].id
          /\ (readResp.op = "list" /\ readResp.status = 200) =>
                \A k \in 1..Len(readResp.body) :
                    \E r \in table : readResp.body[k] = FeedbackResponse(r))
    /\ [][\A p \in Procs :
            /\ (pc[p] \in {"insert", "commit"} /\ pc'[p] = "done") =>
                  \/ /\ response'[p].status = 200
                     /\ txn[p] \in table' \ table
                  \/ /\ response'[p].status = 500
                     /\ table' = table
                     /\ txn'[p] = NoRow
            /\ (pc[p] = "done" /\ response[p].status = 200) => table \subseteq table']_vars

\* C8 witness: one submit failed after its INSERT, and a list read while the
\* other worker's transaction was open shows only committed rows.
C8_Witness ==
    /\ pc["w1"] = "done"
    /\ response["w1"].status = 500
    /\ txn["w2"] # NoRow
    /\ nSuccess = 1
    /\ ListIsCurrent
    /\ Len(readResp.body) = initialCount + 1

\* C9: the table is append-only and changed only by submit: every step keeps
\* every row as it is, and a step that changes the table is a successful
\* submit's commit adding one row.
C9_TableIsAppendOnly ==
    [][/\ table \subseteq table'
       /\ tableExists => tableExists'
       /\ table' # table =>
            \E p \in Procs : IsCommitStep(p) /\ Cardinality(table') = Cardinality(table) + 1]_vars

\* C9 witness: classify, count and list ran on a table holding an earlier row
\* and two submitted ones.
C9_Witness ==
    /\ initialCount = 1
    /\ Cardinality(table) = 3
    /\ clsResp.status = 200
    /\ ListIsCurrent

\* C10: reading pages of limit >= 1 rows until a short page yields every row
\* that was in the table at the first page exactly once, in ascending id
\* order, also when submits commit between the reads.
C10_PagingIsStable ==
    /\ \A i, j \in 1..Len(pager.got) : i < j => pager.got[i].id < pager.got[j].id
    /\ pager.state = "done" =>
          \A r \in pager.snapshot :
              Cardinality({i \in 1..Len(pager.got) : pager.got[i].id = r.id}) = 1
              /\ \E i \in 1..Len(pager.got) : pager.got[i] = FeedbackResponse(r)

\* C10 witness: a paging run of several pages that ended after a submit
\* committed between two of its reads.
C10_Witness ==
    /\ pager.state = "done"
    /\ pager.limit = 1
    /\ Cardinality(pager.snapshot) = 2
    /\ Len(pager.got) = 3

====
